---- MODULE Spec2Model ----
(***************************************************************************)
(* Model of the kakarot-aec native module (src/native/kakarot-aec/src/     *)
(* lib.rs): one AecProcessor session behind its JsBox handle, driven by    *)
(* the five exported host functions create, feedReference, process,        *)
(* getMetrics and reset.  Every action is one whole host call.             *)
(*                                                                         *)
(* TLC integers are 32 bit wide, so the two AtomicU64 counters are kept as *)
(* plain naturals: with the call cap MaxCalls and the elapsed times of     *)
(* ElapsedValues they stay far below 2^64 (and below 2^53, where the       *)
(* u64 -> f64 conversion of get_metrics is exact).                         *)
(***************************************************************************)
EXTENDS Integers, Sequences, FiniteSets, TLC

VARIABLES
    session,             \* "none" | "active" | "disposed": the JsBox handle
    aec,                 \* AecProcessor.aec: the canceller instance
    frame_size,          \* AecProcessor.frame_size
    ref_buffer,          \* AecProcessor.ref_buffer
    max_ref_size,        \* AecProcessor.max_ref_size
    total_frames,        \* AecProcessor.total_frames
    processing_time_us,  \* AecProcessor.processing_time_us
    call,                \* the last completed host call: arguments, locals, result
    stream,              \* history of the reference stream (stream specification)
    threads              \* a record and a snapshot in progress (metrics specification)

vars == <<session, aec, frame_size, ref_buffer, max_ref_size,
          total_frames, processing_time_us, call, stream, threads>>

fields == <<aec, frame_size, ref_buffer, max_ref_size,
            total_frames, processing_time_us>>

(***************************************************************************)
(* Bounds of the model.                                                    *)
(***************************************************************************)
\* process calls between two resets (caps total_frames)
MaxCalls == 3

\* arguments of create in the session specification
SampleRates == {16000}
FrameSizes == {0, 1, 3}
FilterLengths == {63, 64}

\* arguments of create in the creation specification
WideSampleRates == {-1, 0, 8000, 16000, 48000}
WideFrameSizes == {-1, 0, 1, 160, 16383, 16384, 16385}
WideFilterLengths == {-1, 0, 63, 64, 256, 2047, 2048, 2049}

\* byte lengths of the buffers handed to feedReference and to process
FeedByteLens == {1, 257, 514}
ProcessByteLens == {0, 2, 3, 6, 14}

\* values start.elapsed().as_micros() takes
ElapsedValues == {0, 5}

\* the stream specification: feedReference calls made, and the byte lengths
\* of its buffers (a feed that leaves less than a chunk buffered, one that
\* fits, one that evicts)
MaxFeeds == 3
StreamFeedByteLens == {5, 200, 514}
StreamProcessByteLens == {3, 14}

\* the codec specification: the samples and the longest sequence of them
MaxCodecLen == 3
CodecSamples == {-32768, -257, -1, 0, 1, 255, 256, 32767}
CodecSequences == UNION {[1..n -> CodecSamples] : n \in 0..MaxCodecLen}

\* a host buffer of n bytes
Bytes(n, seed) == [i \in 1..n |-> (seed + 37 * i) % 256]

FeedBuffers == {Bytes(n, 3 * n + 11) : n \in FeedByteLens}
ProcessBuffers == {Bytes(n, 5 * n + 120) : n \in ProcessByteLens}
StreamFeedBuffers == {Bytes(n, 7 * n + 29) : n \in StreamFeedByteLens}
StreamProcessBuffers == {Bytes(n, 5 * n + 120) : n \in StreamProcessByteLens}

(***************************************************************************)
(* Sample codec: the byte <-> i16 conversions of the host functions.       *)
(***************************************************************************)
from_le_bytes_unsigned(b0, b1) == b0 + 256 * b1

from_le_bytes(b0, b1) ==
    LET u == b0 + 256 * b1
    IN  IF u >= 32768 THEN u - 65536 ELSE u

to_le_bytes(sample) ==
    LET u == IF sample < 0 THEN sample + 65536 ELSE sample
    IN  <<u % 256, u \div 256>>

decode_even_suffix(bytes) ==
    LET skip == Len(bytes) % 2
    IN  [k \in 1..(Len(bytes) \div 2) |->
            from_le_bytes(bytes[skip + 2 * k - 1], bytes[skip + 2 * k])]

decode_keep_tail(bytes) ==
    [k \in 1..((Len(bytes) + 1) \div 2) |->
        from_le_bytes(bytes[2 * k - 1], IF 2 * k <= Len(bytes) THEN bytes[2 * k] ELSE 0)]

\* bytes.chunks_exact(2).map(|chunk| i16::from_le_bytes([chunk[0], chunk[1]]))
decode(bytes) ==
    [k \in 1..(Len(bytes) \div 2) |-> from_le_bytes(bytes[2 * k - 1], bytes[2 * k])]

encode_byte_per_sample(output) ==
    [j \in 1..Len(output) |-> to_le_bytes(output[j])[1]]

\* cx.buffer(output.len() * 2), then out_bytes[i*2], out_bytes[i*2+1] per sample
encode(output) ==
    [j \in 1..(Len(output) * 2) |-> to_le_bytes(output[(j + 1) \div 2])[2 - (j % 2)]]

\* `as usize` / `as u32` of a JS number: saturating at 0 for negative values
as_unsigned(x) == IF x < 0 THEN 0 ELSE x

(***************************************************************************)
(* The external canceller (aec_rs::Aec).  Its arithmetic is outside the    *)
(* repository; the stand-in keeps what the session relies on: it is built  *)
(* once from the configuration, cancel_echo fills an output frame as long  *)
(* as the frames it is given, and it carries state from call to call (the  *)
(* number of frames it has adapted on, saturating at the first).  Before   *)
(* any adaptation it passes the near-end frame through, afterwards it      *)
(* subtracts the reference, saturating to i16.                             *)
(***************************************************************************)
NoAec == [sample_rate |-> 0, frame_size |-> 0, filter_length |-> 0,
          enable_preprocess |-> FALSE, adapted |-> 0]

Aec_new(sample_rate, fs, filter_length) ==
    [sample_rate |-> sample_rate, frame_size |-> fs,
     filter_length |-> filter_length, enable_preprocess |-> FALSE, adapted |-> 0]

sat16(x) == IF x > 32767 THEN 32767 ELSE IF x < -32768 THEN -32768 ELSE x

cancel_echo(a, rec_buffer, echo_buffer) ==
    [out |-> [i \in 1..Len(rec_buffer) |->
                 IF a.adapted = 0 THEN rec_buffer[i]
                 ELSE sat16(rec_buffer[i] - echo_buffer[i])],
     aec |-> [a EXCEPT !.adapted = IF @ < 1 THEN @ + 1 ELSE @]]

(***************************************************************************)
(* AecProcessor::new                                                       *)
(***************************************************************************)
new_error_frame_size_ge(fs, filter_length) ==
    IF fs = 0 \/ fs >= 16384
    THEN <<"Invalid frame size", fs>>
    ELSE IF filter_length < 64 \/ filter_length > 2048
    THEN <<"Invalid filter length", filter_length>>
    ELSE <<>>

\* the two validation returns; <<>> when the arguments pass
new_error(fs, filter_length) ==
    IF fs = 0 \/ fs > 16384
    THEN <<"Invalid frame size", fs>>
    ELSE IF filter_length < 64 \/ filter_length > 2048
    THEN <<"Invalid filter length", filter_length>>
    ELSE <<>>

\* the Ok(Self { ... }) value
new_self(sample_rate, fs, filter_length) ==
    [aec |-> Aec_new(sample_rate, fs, filter_length),
     frame_size |-> fs,
     ref_buffer |-> <<>>,
     max_ref_size |-> filter_length * 4,
     total_frames |-> 0,
     processing_time_us |-> 0]

(***************************************************************************)
(* AecProcessor::feed_reference                                            *)
(***************************************************************************)
\* whether the range lo..hi indexes a slice of len elements (else the slice
\* or the drain panics)
slice_in_range(len, lo, hi) == 0 <= lo /\ lo <= hi /\ hi <= len

\* whether drain(0..drain_count) stays inside the extended buffer
feed_reference_in_range(buf, samples, max) ==
    LET len == Len(buf) + Len(samples)
    IN  len > max => slice_in_range(len, 0, len - max \div 2)

feed_reference_truncate(buf, samples, max) ==
    LET extended == buf \o samples
    IN  IF Len(extended) > max
        THEN SubSeq(extended, 1, max \div 2)
        ELSE extended

feed_reference_late_eviction(buf, samples, max) ==
    LET extended == buf \o samples
    IN  IF Len(extended) > max + max \div 2
        THEN SubSeq(extended, Len(extended) - max \div 2 + 1, Len(extended))
        ELSE extended

feed_reference_trim_to_ceiling(buf, samples, max) ==
    LET extended == buf \o samples
    IN  IF Len(extended) > max
        THEN SubSeq(extended, Len(extended) - max + 1, Len(extended))
        ELSE extended

\* extend_from_slice, then drain(0..drain_count) when over max_ref_size
feed_reference_core(buf, samples, max) ==
    LET extended == buf \o samples
    IN  IF Len(extended) > max
        THEN LET drain_count == Len(extended) - max \div 2
             IN  SubSeq(extended, drain_count + 1, Len(extended))
        ELSE extended

(***************************************************************************)
(* AecProcessor::process                                                   *)
(***************************************************************************)
zeros(n) == [i \in 1..n |-> 0]

extract_reference_newest(buf, n) ==
    IF Len(buf) >= n
    THEN [ref_samples |-> SubSeq(buf, Len(buf) - n + 1, Len(buf)),
          ref_buffer |-> SubSeq(buf, 1, Len(buf) - n)]
    ELSE [ref_samples |-> zeros(n), ref_buffer |-> buf]

extract_reference_unpadded(buf, n) ==
    IF Len(buf) >= n
    THEN [ref_samples |-> SubSeq(buf, 1, n), ref_buffer |-> SubSeq(buf, n + 1, Len(buf))]
    ELSE [ref_samples |-> buf, ref_buffer |-> <<>>]

extract_reference_partial(buf, n) ==
    IF Len(buf) >= n
    THEN [ref_samples |-> SubSeq(buf, 1, n), ref_buffer |-> SubSeq(buf, n + 1, Len(buf))]
    ELSE [ref_samples |-> buf \o zeros(n - Len(buf)), ref_buffer |-> <<>>]

extract_reference_clears(buf, n) ==
    IF Len(buf) >= n
    THEN [ref_samples |-> SubSeq(buf, 1, n), ref_buffer |-> SubSeq(buf, n + 1, Len(buf))]
    ELSE [ref_samples |-> zeros(n), ref_buffer |-> <<>>]

extract_reference_keeps(buf, n) ==
    IF Len(buf) >= n
    THEN [ref_samples |-> SubSeq(buf, 1, n), ref_buffer |-> buf]
    ELSE [ref_samples |-> zeros(n), ref_buffer |-> buf]

\* the reference for this chunk: drained from the front, or zeros
extract_reference(buf, n) ==
    IF Len(buf) >= n
    THEN [ref_samples |-> SubSeq(buf, 1, n), ref_buffer |-> SubSeq(buf, n + 1, Len(buf))]
    ELSE [ref_samples |-> zeros(n), ref_buffer |-> buf]

\* &input[offset..offset + frame_size]
in_slice(input, offset, fs) == SubSeq(input, offset + 1, offset + fs)

ref_slice_from_start(ref_samples, offset, fs) == SubSeq(ref_samples, 1, fs)

\* &ref_samples[offset..offset + frame_size]
ref_slice(ref_samples, offset, fs) == SubSeq(ref_samples, offset + 1, offset + fs)

\* what cancel_echo wrote through &mut output[offset..offset + frame_size]
write_out_slice(output, offset, frame) ==
    [i \in 1..Len(output) |->
        IF i > offset /\ i <= offset + Len(frame) THEN frame[i - offset] ELSE output[i]]

\* the while loop over whole frames; it stops with panic set at the first
\* slice that is out of range
RECURSIVE frame_loop(_, _, _, _, _, _, _)
frame_loop(input, ref_samples, fs, offset, a, output, frames) ==
    IF offset + fs <= Len(input)
    THEN IF /\ slice_in_range(Len(input), offset, offset + fs)
            /\ slice_in_range(Len(ref_samples), offset, offset + fs)
            /\ slice_in_range(Len(output), offset, offset + fs)
         THEN LET near == in_slice(input, offset, fs)
                  far == ref_slice(ref_samples, offset, fs)
                  r == cancel_echo(a, near, far)
              IN  frame_loop(input, ref_samples, fs, offset + fs, r.aec,
                             write_out_slice(output, offset, r.out),
                             Append(frames, [offset |-> offset, near |-> near,
                                             far |-> far, out |-> r.out]))
         ELSE [offset |-> offset, aec |-> a, output |-> output, frames |-> frames,
               panic |-> TRUE]
    ELSE [offset |-> offset, aec |-> a, output |-> output, frames |-> frames,
          panic |-> FALSE]

copy_remainder_skipped(output, input, offset) == output

\* output[offset..].copy_from_slice(&input[offset..]) when offset < input.len()
copy_remainder(output, input, offset) ==
    IF offset < Len(input)
    THEN [i \in 1..Len(output) |-> IF i > offset THEN input[i] ELSE output[i]]
    ELSE output

record_frames_per_window(frames, windows) == frames + windows

\* total_frames.fetch_add(1) (windows: the canceller invocations of the call)
record_frames(frames, windows) == frames + 1

record_time_store(time, elapsed_us) == elapsed_us

\* processing_time_us.fetch_add(elapsed_us)
record_time(time, elapsed_us) == time + elapsed_us

\* the whole method: the fields afterwards, the locals and the returned output;
\* a panic unwinds out of the loop: the reference is already drained, the
\* counters are not yet touched and nothing is returned
process_core(self, input, elapsed_us) ==
    LET ex == extract_reference(self.ref_buffer, Len(input))
        lp == frame_loop(input, ex.ref_samples, self.frame_size, 0, self.aec,
                         zeros(Len(input)), <<>>)
    IN  IF lp.panic
        THEN [self |-> [self EXCEPT !.aec = lp.aec, !.ref_buffer = ex.ref_buffer],
              ref_samples |-> ex.ref_samples,
              frames |-> lp.frames,
              output |-> <<>>,
              panic |-> TRUE]
        ELSE [self |-> [self EXCEPT
                          !.aec = lp.aec,
                          !.ref_buffer = ex.ref_buffer,
                          !.total_frames = record_frames(@, Len(lp.frames)),
                          !.processing_time_us = record_time(@, elapsed_us)],
              ref_samples |-> ex.ref_samples,
              frames |-> lp.frames,
              output |-> copy_remainder(lp.output, input, lp.offset),
              panic |-> FALSE]

(***************************************************************************)
(* AecProcessor::reset and AecProcessor::get_metrics                       *)
(***************************************************************************)
reset_keeps_time(self) ==
    [self EXCEPT !.ref_buffer = <<>>, !.total_frames = 0]

reset_core(self) ==
    [self EXCEPT !.ref_buffer = <<>>, !.total_frames = 0, !.processing_time_us = 0]

get_metrics_time_first == <<"processing_time_us", "total_frames">>

\* the order of the two loads of get_metrics
get_metrics_order == <<"total_frames", "processing_time_us">>

get_metrics_core(self) == <<self.total_frames, self.processing_time_us>>

(***************************************************************************)
(* The session and its host calls.                                         *)
(***************************************************************************)
\* the AecProcessor behind the handle
Self ==
    [aec |-> aec, frame_size |-> frame_size, ref_buffer |-> ref_buffer,
     max_ref_size |-> max_ref_size, total_frames |-> total_frames,
     processing_time_us |-> processing_time_us]

NoSelf ==
    [aec |-> NoAec, frame_size |-> 0, ref_buffer |-> <<>>, max_ref_size |-> 0,
     total_frames |-> 0, processing_time_us |-> 0]

SetSelf(s) ==
    /\ aec' = s.aec
    /\ frame_size' = s.frame_size
    /\ ref_buffer' = s.ref_buffer
    /\ max_ref_size' = s.max_ref_size
    /\ total_frames' = s.total_frames
    /\ processing_time_us' = s.processing_time_us

\* a host call with nothing recorded yet
NoCall ==
    [op |-> "none", args |-> <<>>, samples |-> <<>>, ref_samples |-> <<>>,
     frames |-> <<>>, output |-> <<>>, ret |-> <<>>, err |-> <<>>, pre |-> NoSelf]

\* no reference fed or consumed yet.  fed_samples: every sample handed to
\* feed_reference, in feed order; ids: for each buffered sample its position
\* in fed_samples; used, used_samples: the positions and the values of the
\* samples process drained as reference, in call order
NoStream ==
    [feeds |-> 0, fed_samples |-> <<>>, ids |-> <<>>, used |-> <<>>,
     used_samples |-> <<>>]

\* no record and no snapshot in progress.  rec_pc, elapsed_us: the position
\* of the process call that is recording and its elapsed time; snap_pc,
\* snap_frames, snap_time: the position of get_metrics and what it has loaded;
\* after: the pair of counters after each completed record
NoThreads ==
    [rec_pc |-> "idle", elapsed_us |-> 0,
     snap_pc |-> "idle", snap_frames |-> 0, snap_time |-> 0, after |-> <<>>]

\* the module is loaded; create has not been called
Init ==
    /\ session = "none"
    /\ aec = NoAec
    /\ frame_size = 0
    /\ ref_buffer = <<>>
    /\ max_ref_size = 0
    /\ total_frames = 0
    /\ processing_time_us = 0
    /\ call = NoCall
    /\ stream = NoStream
    /\ threads = NoThreads

handle_was_created(s) == s # "none"

\* cx.argument::<BoxedAec>(0)? succeeds only on a live handle
handle_is_live(s) == s = "active"

\* create(sampleRate, frameSize, filterLength) with arguments from the given sets
CreateFrom(rates, sizes, lengths) ==
    /\ session = "none"
    /\ \E r \in rates, f \in sizes, l \in lengths :
         LET sample_rate == as_unsigned(r)
             fs == as_unsigned(f)
             filter_length == as_unsigned(l)
             e == new_error(fs, filter_length)
             rec == [NoCall EXCEPT !.op = "create",
                                   !.args = <<sample_rate, fs, filter_length>>,
                                   !.err = e, !.pre = Self]
         IN  IF e # <<>>
             THEN /\ session' = "none"
                  /\ UNCHANGED fields
                  /\ call' = rec
             ELSE /\ session' = "active"
                  /\ SetSelf(new_self(sample_rate, fs, filter_length))
                  /\ call' = rec
    /\ UNCHANGED <<stream, threads>>

Create == CreateFrom(SampleRates, FrameSizes, FilterLengths)

CreateWide == CreateFrom(WideSampleRates, WideFrameSizes, WideFilterLengths)

\* feedReference(handle, buffer) with a buffer of the given set; the
\* drain of the eviction panics when its range is out of the buffer
FeedReferenceCall(buffers) ==
    /\ handle_is_live(session)
    /\ \E bytes \in buffers :
         LET samples == decode(bytes)
             rec == [NoCall EXCEPT !.op = "feedReference", !.args = bytes,
                                   !.samples = samples, !.pre = Self]
         IN  IF feed_reference_in_range(ref_buffer, samples, max_ref_size)
             THEN /\ ref_buffer' = feed_reference_core(ref_buffer, samples, max_ref_size)
                  /\ call' = rec
             ELSE /\ ref_buffer' = ref_buffer \o samples
                  /\ call' = [rec EXCEPT !.err = <<"panic">>]
    /\ UNCHANGED <<session, aec, frame_size, max_ref_size,
                   total_frames, processing_time_us>>

FeedReference ==
    /\ FeedReferenceCall(FeedBuffers)
    /\ UNCHANGED <<stream, threads>>

\* process(handle, buffer) with a buffer of the given set
ProcessCall(buffers, elapsed) ==
    /\ handle_is_live(session)
    /\ total_frames < MaxCalls
    /\ \E bytes \in buffers, elapsed_us \in elapsed :
         LET input == decode(bytes)
             p == process_core(Self, input, elapsed_us)
         IN  /\ SetSelf(p.self)
             /\ call' = [NoCall EXCEPT !.op = "process", !.args = bytes,
                                       !.samples = input,
                                       !.ref_samples = p.ref_samples,
                                       !.frames = p.frames,
                                       !.output = p.output,
                                       !.ret = IF p.panic THEN <<>> ELSE encode(p.output),
                                       !.err = IF p.panic THEN <<"panic">> ELSE <<>>,
                                       !.pre = Self]
    /\ UNCHANGED session

Process ==
    /\ ProcessCall(ProcessBuffers, ElapsedValues)
    /\ UNCHANGED <<stream, threads>>

\* getMetrics(handle)
GetMetrics ==
    /\ handle_is_live(session)
    /\ call' = [NoCall EXCEPT !.op = "getMetrics", !.ret = get_metrics_core(Self),
                              !.pre = Self]
    /\ UNCHANGED <<session, fields, stream, threads>>

\* reset(handle)
Reset ==
    /\ handle_is_live(session)
    /\ SetSelf(reset_core(Self))
    /\ call' = [NoCall EXCEPT !.op = "reset", !.pre = Self]
    /\ UNCHANGED <<session, stream, threads>>

\* feedReference in the stream specification: the fed samples join the
\* history, and their positions go the way the samples go in the buffer
StreamFeed ==
    /\ stream.feeds < MaxFeeds
    /\ FeedReferenceCall(StreamFeedBuffers)
    /\ LET n == Len(call'.samples)
           fed == Len(stream.fed_samples)
           new_ids == [i \in 1..n |-> fed + i]
       IN  stream' = [stream EXCEPT
                        !.feeds = @ + 1,
                        !.fed_samples = @ \o call'.samples,
                        !.ids = IF call'.err = <<>>
                                THEN feed_reference_core(@, new_ids, max_ref_size)
                                ELSE @ \o new_ids]
    /\ UNCHANGED threads

\* process in the stream specification: what it drained joins the history
StreamProcess ==
    /\ ProcessCall(StreamProcessBuffers, {1})
    /\ LET n == Len(call'.samples)
           ex == extract_reference(stream.ids, n)
       IN  stream' = IF Len(ref_buffer) >= n
                     THEN [stream EXCEPT
                             !.ids = ex.ref_buffer,
                             !.used = @ \o ex.ref_samples,
                             !.used_samples = @ \o call'.ref_samples]
                     ELSE [stream EXCEPT !.ids = ex.ref_buffer]
    /\ UNCHANGED threads

Next ==
    \/ Create
    \/ FeedReference
    \/ Process
    \/ GetMetrics
    \/ Reset

Spec == Init /\ [][Next]_vars

\* the JsBox is finalized once the host has dropped the handle (Finalize for
\* AecProcessor is the default: the processor is dropped; the module exports
\* no dispose function)
Dispose ==
    /\ session = "active"
    /\ session' = "disposed"
    /\ call' = [NoCall EXCEPT !.op = "finalize"]
    /\ UNCHANGED <<fields, stream, threads>>

\* a host call whose first argument is no live handle: the downcast of
\* cx.argument::<BoxedAec>(0)? fails and the call throws before it borrows
CallWithoutHandle ==
    /\ ~handle_is_live(session)
    /\ \E op \in {"feedReference", "process", "getMetrics", "reset"} :
         call' = [NoCall EXCEPT !.op = "throw", !.args = <<op>>,
                               !.err = <<"TypeError">>]
    /\ UNCHANGED <<session, fields, stream, threads>>

\* the host calls, with the end of the session's life
NextLifecycle ==
    \/ Next
    \/ Dispose
    \/ CallWithoutHandle

SpecLifecycle == Init /\ [][NextLifecycle]_vars

\* create, feedReference and process with the history of the reference stream
NextStream ==
    \/ Create
    \/ StreamFeed
    \/ StreamProcess

SpecStream == Init /\ [][NextStream]_vars

\* process's two fetch_add, one atomic step each
RecordFrames ==
    /\ handle_is_live(session)
    /\ threads.rec_pc = "idle"
    /\ total_frames < MaxCalls
    /\ \E elapsed_us \in ElapsedValues :
         threads' = [threads EXCEPT !.rec_pc = "frames_added", !.elapsed_us = elapsed_us]
    /\ total_frames' = record_frames(total_frames, 1)
    /\ UNCHANGED <<session, aec, frame_size, ref_buffer, max_ref_size,
                   processing_time_us, call, stream>>

RecordTime ==
    /\ threads.rec_pc = "frames_added"
    /\ processing_time_us' = record_time(processing_time_us, threads.elapsed_us)
    /\ threads' = [threads EXCEPT
                     !.rec_pc = "idle",
                     !.after = Append(@, <<total_frames, processing_time_us'>>)]
    /\ UNCHANGED <<session, aec, frame_size, ref_buffer, max_ref_size,
                   total_frames, call, stream>>

\* get_metrics's two loads, one atomic step each
load(t, counter) ==
    IF counter = "total_frames"
    THEN [t EXCEPT !.snap_frames = total_frames]
    ELSE [t EXCEPT !.snap_time = processing_time_us]

SnapshotFirst ==
    /\ handle_is_live(session)
    /\ threads.snap_pc \in {"idle", "done"}
    /\ threads' = [load(threads, get_metrics_order[1]) EXCEPT !.snap_pc = "first_loaded"]
    /\ UNCHANGED <<session, fields, call, stream>>

SnapshotSecond ==
    /\ threads.snap_pc = "first_loaded"
    /\ threads' = [load(threads, get_metrics_order[2]) EXCEPT !.snap_pc = "done"]
    /\ UNCHANGED <<session, fields, call, stream>>

\* a process call recording while get_metrics takes its snapshot
NextMetrics ==
    \/ Create
    \/ RecordFrames
    \/ RecordTime
    \/ SnapshotFirst
    \/ SnapshotSecond

SpecMetrics == Init /\ [][NextMetrics]_vars

\* the codec alone: process's encoding of a sample sequence, decoded again
\* the way process and feed_reference decode their buffer
CodecRoundTrip ==
    /\ call.op = "none"
    /\ \E samples \in CodecSequences :
         LET bytes == encode(samples)
         IN  call' = [NoCall EXCEPT !.op = "codec", !.samples = samples,
                                   !.args = bytes, !.output = decode(bytes)]
    /\ UNCHANGED <<session, fields, stream, threads>>

NextCodec == CodecRoundTrip

SpecCodec == Init /\ [][NextCodec]_vars

\* session creation alone, over the wide argument sets
NextCreate == CreateWide

SpecCreate == Init /\ [][NextCreate]_vars

(***************************************************************************)
(* Properties.                                                             *)
(***************************************************************************)
Active == session = "active"

\* samples of the last call's chunk, and its whole frames
L == Len(call.samples)
Whole == (L \div frame_size) * frame_size

\* C1: on a created session the reference buffer never holds more than
\* max_ref_size = 4 * filter_length samples, whatever calls were made.
C1_BufferBounded ==
    Active => /\ max_ref_size = 4 * aec.filter_length
              /\ Len(ref_buffer) <= max_ref_size

\* a feed that pushed the buffer past the ceiling has returned
C1_Witness ==
    /\ Active
    /\ call.op = "feedReference"
    /\ Len(call.pre.ref_buffer) > 0
    /\ Len(call.pre.ref_buffer) + L > max_ref_size
    /\ Len(ref_buffer) <= max_ref_size

\* C2: a feed of n samples onto len buffered ones leaves exactly
\* floor(max_ref_size / 2) samples when len + n > max_ref_size, and otherwise
\* (equality included) evicts nothing and leaves exactly len + n.
C2_FeedLength ==
    call.op = "feedReference" =>
        LET len == Len(call.pre.ref_buffer)
        IN  IF len + L > max_ref_size
            THEN Len(ref_buffer) = max_ref_size \div 2
            ELSE /\ Len(ref_buffer) = len + L
                 /\ ref_buffer = call.pre.ref_buffer \o call.samples

\* a feed that filled the buffer exactly to the ceiling, nothing evicted
C2_Witness ==
    /\ call.op = "feedReference"
    /\ L > 0
    /\ Len(call.pre.ref_buffer) > 0
    /\ Len(call.pre.ref_buffer) + L = max_ref_size
    /\ Len(ref_buffer) = max_ref_size

\* the other case of C2: a feed past the ceiling settled at half of it
C2_EvictionReached ==
    /\ call.op = "feedReference"
    /\ Len(call.pre.ref_buffer) + L > max_ref_size
    /\ Len(ref_buffer) = max_ref_size \div 2

\* C3: process on a byte buffer of even length 2n returns exactly 2n bytes,
\* whatever the reference buffer holds and whether or not n is a multiple of
\* frame_size.
C3_EvenLengthPreserved ==
    (call.op = "process" /\ Len(call.args) % 2 = 0) => Len(call.ret) = Len(call.args)

\* an even, non-aligned chunk longer than the buffered reference was processed
C3_Witness ==
    /\ call.op = "process"
    /\ Len(call.args) = 14
    /\ L % frame_size # 0
    /\ Len(call.pre.ref_buffer) < L
    /\ Len(call.ret) = 14

\* C4 as stated: process returns as many bytes as it was given, odd lengths
\* included.
C4_AnyLengthPreserved ==
    call.op = "process" => Len(call.ret) = Len(call.args)

\* C4 amended: process returns as many bytes as the largest even-length prefix
\* of its input has: the input's length when that is even, one less when odd.
C4_EvenPrefixLength ==
    call.op = "process" => Len(call.ret) = 2 * (Len(call.args) \div 2)

\* an odd-length buffer was processed
C4_Witness ==
    /\ call.op = "process"
    /\ Len(call.args) = 3
    /\ Len(call.ret) = 2

\* C5: process invokes the canceller floor(L / F) times, at increasing
\* offsets k*F, each time on the near-end window and the reference window at
\* that offset, and the output window at that offset is that call's result.
C5_FrameWindows ==
    call.op = "process" =>
        /\ Len(call.ref_samples) = L
        /\ Len(call.output) = L
        /\ Len(call.frames) = L \div frame_size
        /\ \A k \in 1..Len(call.frames) :
             LET f == call.frames[k]
                 lo == (k - 1) * frame_size
             IN  /\ f.offset = lo
                 /\ f.near = SubSeq(call.samples, lo + 1, lo + frame_size)
                 /\ f.far = SubSeq(call.ref_samples, lo + 1, lo + frame_size)
                 /\ Len(f.out) = frame_size
                 /\ SubSeq(call.output, lo + 1, lo + frame_size) = f.out

\* two whole frames and a remainder, with drained (non-silent) reference, on
\* an adapted canceller
C5_Witness ==
    /\ call.op = "process"
    /\ frame_size = 3
    /\ L = 7
    /\ Len(call.frames) = 2
    /\ Len(call.pre.ref_buffer) >= 7
    /\ call.ref_samples = SubSeq(call.pre.ref_buffer, 1, 7)
    /\ call.frames[2].far # call.frames[1].far
    /\ call.frames[2].far # zeros(3)
    /\ call.frames[2].out # call.frames[2].near

\* C6: the trailing L mod F samples of the output equal the input at the same
\* offsets and no canceller invocation covers them; with L < F the canceller
\* is not invoked and the output is the input.
C6_RemainderVerbatim ==
    call.op = "process" =>
        /\ \A i \in (Whole + 1)..L : call.output[i] = call.samples[i]
        /\ \A k \in 1..Len(call.frames) :
             call.frames[k].offset + Len(call.frames[k].near) <= Whole
        /\ L < frame_size => (call.frames = <<>> /\ call.output = call.samples)

\* a chunk with two frames and one trailing non-zero sample was processed
C6_Witness ==
    /\ call.op = "process"
    /\ frame_size = 3
    /\ L = 7
    /\ Len(call.frames) = 2
    /\ call.samples[7] # 0
    /\ call.output[7] = call.samples[7]

\* the L < F case of C6
C6_ShortChunkReached ==
    /\ call.op = "process"
    /\ L = 1
    /\ frame_size = 3
    /\ call.output = call.samples

\* C7: every process call adds exactly 1 to total_frames, whatever the chunk
\* and the reference, and feedReference and getMetrics leave it alone; so k
\* process calls without a reset add k.
C7_OneFramePerCall ==
    [][/\ call'.op = "process" => total_frames' = total_frames + 1
       /\ call'.op \in {"feedReference", "getMetrics"} => total_frames' = total_frames]_vars

\* a third process call, on a chunk of several windows, after empty chunks
C7_Witness ==
    /\ call.op = "process"
    /\ total_frames = 3
    /\ call.pre.total_frames = 2
    /\ Len(call.frames) >= 2

\* C8: processing_time_us never decreases over process, feedReference and
\* getMetrics calls: process adds a non-negative elapsed time, the other two
\* leave both counters unchanged.
C8_TimeMonotone ==
    [][/\ call'.op = "process" => processing_time_us' >= processing_time_us
       /\ call'.op \in {"feedReference", "getMetrics"} =>
            /\ processing_time_us' = processing_time_us
            /\ total_frames' = total_frames]_vars

\* a process call that took no measurable time after one that took some
C8_Witness ==
    /\ call.op = "process"
    /\ call.pre.processing_time_us > 0
    /\ processing_time_us = call.pre.processing_time_us

\* C9: reset empties the reference buffer and zeroes both counters, and keeps
\* frame_size, max_ref_size and the canceller as they were.
C9_ResetEffect ==
    call.op = "reset" =>
        /\ ref_buffer = <<>>
        /\ total_frames = 0
        /\ processing_time_us = 0
        /\ frame_size = call.pre.frame_size
        /\ max_ref_size = call.pre.max_ref_size
        /\ aec = call.pre.aec

\* reset of a session with buffered reference, counted calls and an adapted
\* canceller
C9_Witness ==
    /\ call.op = "reset"
    /\ call.pre.ref_buffer # <<>>
    /\ call.pre.total_frames > 0
    /\ call.pre.processing_time_us > 0
    /\ call.pre.aec.adapted > 0
    /\ aec.adapted > 0

\* C10: create fails exactly when frame_size is 0 or above 16384 or
\* filter_length is below 64 or above 2048, whatever sample_rate is; on
\* success the session has an empty buffer, max_ref_size = 4 * filter_length
\* and zero counters; on failure there is no session.
C10_CreateValidation ==
    call.op = "create" =>
        LET fs == call.args[2]
            fl == call.args[3]
        IN  /\ (call.err # <<>>) <=> (fs = 0 \/ fs > 16384 \/ fl < 64 \/ fl > 2048)
            /\ call.err = <<>> =>
                 /\ session = "active"
                 /\ frame_size = fs
                 /\ ref_buffer = <<>>
                 /\ max_ref_size = fl * 4
                 /\ total_frames = 0
                 /\ processing_time_us = 0
            /\ call.err # <<>> => (session = "none" /\ Self = NoSelf)

\* creation succeeded with both arguments at their upper limits
C10_Witness ==
    /\ call.op = "create"
    /\ call.args[2] = 16384
    /\ call.args[3] = 2048
    /\ session = "active"
    /\ max_ref_size = 8192

\* creation failed on the filter length alone
C10_FailureReached ==
    /\ call.op = "create"
    /\ call.args[2] = 160
    /\ call.args[3] = 63
    /\ call.err # <<>>
    /\ session = "none"

\* C11: a process call of L samples on a buffer holding fewer than L (an empty
\* one included) does not fail, hands all-zero reference to every canceller
\* invocation and returns L samples.
C11_SilentReference ==
    (call.op = "process" /\ Len(call.pre.ref_buffer) < L) =>
        /\ call.err = <<>>
        /\ call.ref_samples = zeros(L)
        /\ Len(call.frames) = L \div frame_size
        /\ \A k \in 1..Len(call.frames) : call.frames[k].far = zeros(frame_size)
        /\ Len(call.output) = L
        /\ Len(call.ret) = 2 * L

\* whole frames were cancelled while fewer, non-zero samples were buffered
C11_Witness ==
    /\ call.op = "process"
    /\ Len(call.pre.ref_buffer) > 0
    /\ Len(call.pre.ref_buffer) < L
    /\ call.pre.ref_buffer[1] # 0
    /\ Len(call.frames) >= 2
    /\ call.frames[1].far = zeros(frame_size)

\* the empty-buffer case of C11
C11_EmptyBufferReached ==
    /\ call.op = "process"
    /\ call.pre.ref_buffer = <<>>
    /\ Len(call.frames) >= 1
    /\ Len(call.output) = L

\* C12: on a created session feedReference, process, getMetrics and reset
\* complete without an error, and no slice or drain of theirs is out of range,
\* whatever the state and the byte buffer.
C12_CallsNeverFail ==
    (Active /\ call.op \in {"feedReference", "process", "getMetrics", "reset"}) =>
        /\ call.err = <<>>
        /\ call.op = "process" =>
             /\ slice_in_range(Len(call.ref_samples), 0, L)
             /\ \A k \in 1..Len(call.frames) :
                  LET lo == call.frames[k].offset
                  IN  /\ slice_in_range(L, lo, lo + frame_size)
                      /\ slice_in_range(Len(call.ref_samples), lo, lo + frame_size)
                      /\ slice_in_range(Len(call.output), lo, lo + frame_size)
             /\ Len(call.ret) = 2 * Len(call.output)
        /\ call.op = "feedReference" =>
             feed_reference_in_range(call.pre.ref_buffer, call.samples, max_ref_size)

\* an odd-length buffer of one sample, shorter than frame_size, was processed
\* on an empty reference buffer without error
C12_Witness ==
    /\ Active
    /\ call.op = "process"
    /\ Len(call.args) = 3
    /\ frame_size = 3
    /\ call.pre.ref_buffer = <<>>
    /\ call.err = <<>>

\* other cases of C12: a chunk of several frames, longer than the buffered
\* reference; an empty buffer; a feed longer than the whole reference buffer
C12_LongChunkReached ==
    /\ call.op = "process"
    /\ Len(call.frames) >= 2
    /\ Len(call.pre.ref_buffer) < L
    /\ call.err = <<>>

C12_EmptyInputReached ==
    /\ call.op = "process"
    /\ call.args = <<>>
    /\ call.pre.ref_buffer # <<>>
    /\ call.err = <<>>

C12_LongFeedReached ==
    /\ call.op = "feedReference"
    /\ L > max_ref_size
    /\ call.pre.ref_buffer # <<>>
    /\ call.err = <<>>

\* C13: decoding the encoding of a sample sequence gives the sequence back,
\* and the encoding has two bytes (0..255) per sample.
C13_RoundTrip ==
    call.op = "codec" =>
        /\ call.output = call.samples
        /\ Len(call.args) = 2 * Len(call.samples)
        /\ \A j \in 1..Len(call.args) : call.args[j] \in 0..255

\* a sequence with both extremes and a negative sample made the round trip
C13_Witness ==
    /\ call.op = "codec"
    /\ call.samples = <<-32768, -257, 32767>>
    /\ call.args = <<0, 128, 255, 254, 255, 127>>
    /\ call.output = call.samples

\* C14: feedReference and process decode a buffer of n bytes into floor(n / 2)
\* samples, the k-th from bytes 2k-1 and 2k; a trailing odd byte adds no sample
\* to the reference buffer and none to the output.
C14_EvenPrefixDecoded ==
    call.op \in {"feedReference", "process"} =>
        LET n == Len(call.args)
        IN  /\ L = n \div 2
            /\ \A k \in 1..(n \div 2) :
                 call.samples[k] = from_le_bytes(call.args[2 * k - 1], call.args[2 * k])
            /\ call.op = "feedReference" =>
                 /\ Len(ref_buffer) <= Len(call.pre.ref_buffer) + n \div 2
                 /\ Len(call.pre.ref_buffer) + n \div 2 <= max_ref_size =>
                      ref_buffer = call.pre.ref_buffer \o call.samples
                 /\ n \div 2 > 0 =>
                      ref_buffer[Len(ref_buffer)] =
                          from_le_bytes(call.args[2 * (n \div 2) - 1], call.args[2 * (n \div 2)])
            /\ call.op = "process" => Len(call.output) = n \div 2

\* a feed of 257 bytes put 128 samples behind buffered ones
C14_Witness ==
    /\ call.op = "feedReference"
    /\ Len(call.args) = 257
    /\ call.pre.ref_buffer # <<>>
    /\ Len(ref_buffer) = Len(call.pre.ref_buffer) + 128

\* the other cases of C14: a lone byte fed, an odd-length buffer processed
C14_LoneByteReached ==
    /\ call.op = "feedReference"
    /\ Len(call.args) = 1
    /\ call.pre.ref_buffer # <<>>
    /\ ref_buffer = call.pre.ref_buffer

C14_OddProcessReached ==
    /\ call.op = "process"
    /\ Len(call.args) = 3
    /\ call.output = <<from_le_bytes(call.args[1], call.args[2])>>

C16_EvictsFromFront ==
    call.op = "feedReference" =>
        LET extended == call.pre.ref_buffer \o call.samples
            kept == Len(ref_buffer)
        IN  /\ kept <= Len(extended)
            /\ ref_buffer = SubSeq(extended, Len(extended) - kept + 1, Len(extended))

\* a feed longer than max_ref_size onto a non-empty buffer left the newest
\* half ceiling of its own samples
C16_Witness ==
    /\ call.op = "feedReference"
    /\ call.pre.ref_buffer # <<>>
    /\ L > max_ref_size
    /\ Len(ref_buffer) < L
    /\ ref_buffer = SubSeq(call.samples, L - Len(ref_buffer) + 1, L)
    /\ ref_buffer # SubSeq(call.samples, 1, Len(ref_buffer))

\* an eviction that kept part of the older content, behind it all the new
C16_MixedEvictionReached ==
    /\ call.op = "feedReference"
    /\ Len(call.pre.ref_buffer) + L > max_ref_size
    /\ L > 0
    /\ L < Len(ref_buffer)

\* C17: a process call of L samples on a buffer holding at least L uses the
\* first L buffered samples, oldest first, as reference and leaves the rest:
\* the buffer shrinks by exactly L, whatever frame_size is.
C17_DrainsOldest ==
    (call.op = "process" /\ Len(call.pre.ref_buffer) >= L) =>
        /\ call.ref_samples = SubSeq(call.pre.ref_buffer, 1, L)
        /\ ref_buffer = SubSeq(call.pre.ref_buffer, L + 1, Len(call.pre.ref_buffer))
        /\ Len(ref_buffer) = Len(call.pre.ref_buffer) - L

\* seven samples were drained for two frames of three and a trailing sample
C17_Witness ==
    /\ call.op = "process"
    /\ frame_size = 3
    /\ L = 7
    /\ Len(call.pre.ref_buffer) > 7
    /\ Len(ref_buffer) = Len(call.pre.ref_buffer) - 7
    /\ call.ref_samples[1] # call.pre.ref_buffer[Len(call.pre.ref_buffer) - 6]

\* the boundary of C17: the buffer held exactly L samples
C17_ExactDrainReached ==
    /\ call.op = "process"
    /\ L > 0
    /\ Len(call.pre.ref_buffer) = L
    /\ ref_buffer = <<>>

\* the counters between two calls: <<0, 0>>, then the pair after each record
Boundary(j) == IF j = 0 THEN <<0, 0>> ELSE threads.after[j]
Boundaries == {Boundary(j) : j \in 0..Len(threads.after)}
Snapshot == <<threads.snap_frames, threads.snap_time>>

\* C18: with the two fetch_add of a record and the two loads of a snapshot
\* interleaved step by step, a snapshot's processing_time_us is the value
\* after some completed record j and its total_frames is at most j + 1: it is
\* a between-calls pair (j = total_frames), or total_frames already counts the
\* record in progress (j = total_frames - 1), or processing_time_us is ahead
\* (j > total_frames); the torn pairs are returned.
C18_SnapshotTearing ==
    threads.snap_pc = "done" =>
        /\ threads.snap_frames <= total_frames
        /\ \E j \in 0..Len(threads.after) :
             /\ Boundary(j)[2] = threads.snap_time
             /\ j >= threads.snap_frames - 1

\* a snapshot with total_frames incremented and processing_time_us not yet:
\* a pair that is no between-calls state and, the elapsed time being
\* positive, never will be
C18_Witness ==
    /\ threads.snap_pc = "done"
    /\ threads.rec_pc = "frames_added"
    /\ threads.elapsed_us > 0
    /\ threads.snap_frames = Len(threads.after) + 1
    /\ threads.snap_time = Boundary(Len(threads.after))[2]
    /\ Snapshot \notin Boundaries

\* the reverse: processing_time_us increased, total_frames not incremented
C18_TimeAheadReached ==
    /\ threads.snap_pc = "done"
    /\ threads.rec_pc = "idle"
    /\ threads.snap_frames < Len(threads.after)
    /\ threads.snap_time > Boundary(threads.snap_frames)[2]
    /\ Snapshot \notin Boundaries

\* C19: a process call that finds fewer than L samples buffered leaves the
\* reference buffer exactly as it was.
C19_ShortBufferUntouched ==
    (call.op = "process" /\ Len(call.pre.ref_buffer) < L) =>
        ref_buffer = call.pre.ref_buffer

\* a call that found some samples, but fewer than L, and left them
C19_Witness ==
    /\ call.op = "process"
    /\ call.pre.ref_buffer # <<>>
    /\ Len(call.pre.ref_buffer) < L
    /\ ref_buffer = call.pre.ref_buffer

\* C20: without reset, the reference samples that process calls drained, in
\* call order, are fed samples at strictly increasing positions of the
\* concatenation of all feeds: each is used at most once and in feed order.
C20_UsedIsSubsequence ==
    /\ Len(stream.used) = Len(stream.used_samples)
    /\ \A k \in 1..Len(stream.used) :
         /\ stream.used[k] \in 1..Len(stream.fed_samples)
         /\ stream.used_samples[k] = stream.fed_samples[stream.used[k]]
    /\ \A k \in 1..(Len(stream.used) - 1) : stream.used[k] < stream.used[k + 1]
    /\ Len(stream.ids) = Len(ref_buffer)
    /\ \A i \in 1..Len(stream.ids) :
         /\ stream.ids[i] \in 1..Len(stream.fed_samples)
         /\ ref_buffer[i] = stream.fed_samples[stream.ids[i]]

\* two draining calls with evicted samples skipped between them
C20_Witness ==
    /\ call.op = "process"
    /\ Len(call.pre.ref_buffer) >= L
    /\ L > 0
    /\ \E k \in 1..(Len(stream.used) - 1) : stream.used[k + 1] > stream.used[k] + 1

\* three calls: two drained the buffer, one substituted zeros
C20_SubstitutedCallReached ==
    /\ call.op = "process"
    /\ Len(call.pre.ref_buffer) >= L
    /\ L > 0
    /\ total_frames = 3
    /\ Len(stream.used) = 2 * L

====
